---- MODULE Spec2Model ----
(***************************************************************************)
(* A model of bitfield.Bitfield (src/bitfield/bitfield.py): an integer     *)
(* with bit-indexed read, write and delete, an optional fixed width that   *)
(* masks every read of the value, and the in-place integer operators.      *)
(*                                                                         *)
(* One Bitfield object is modelled.  Every method call is one action: it   *)
(* runs the whole method on the object's fields, and records the call, the *)
(* object as it was before the call and the call's outcome, so that the    *)
(* properties below can relate the three.  Return is the caller taking the *)
(* outcome before it makes the next call.                                  *)
(*                                                                         *)
(* chunker.chunk_file (src/bitfield/chunker.py), the generator cutting a   *)
(* byte source into fixed-width Bitfields, has specifications of its own   *)
(* (SpecChunk, SpecChunkFair): its working Bitfield is the modelled object.*)
(***************************************************************************)
EXTENDS Integers, Sequences, FiniteSets, TLC

(* Bounds of the model. *)
\* Stored integers range over -MaxNeg .. 2^MaxBits - 1, widths over 0..MaxBits.
MaxBits == 3
MaxNeg == 2
\* The integers written by bf[key] = x range over 0 .. MaxInput.
MaxInput == 7
\* Slice steps range over -MaxStep .. MaxStep (and None).
MaxStep == 2
\* Right operands of the in-place operators range over 0 .. MaxOperand.
MaxOperand == 2

(***************************************************************************)
(* Python's None and optional values: None is the empty tuple, a present   *)
(* value n the one-element tuple <<n>>.                                    *)
(***************************************************************************)
None == << >>

Some(n) == << n >>

IsNone(o) == o = None

Val(o) == o[1]

Opt(S) == {None} \cup {Some(n) : n \in S}

Min(a, b) == IF a < b THEN a ELSE b

Max(a, b) == IF a < b THEN b ELSE a

(***************************************************************************)
(* Python's int operators on arbitrary-precision integers (negative        *)
(* integers behave as an infinite two's complement).                       *)
(***************************************************************************)
RECURSIVE Pow2(_)
Pow2(n) == IF n <= 0 THEN 1 ELSE 2 * Pow2(n - 1)

\* a << n
Shl(a, n) == a * Pow2(n)

\* a >> n (rounds towards minus infinity)
Shr(a, n) == a \div Pow2(n)

\* ~a
Not(a) == -a - 1

RECURSIVE And(_, _)
And(a, b) ==
    IF a = 0 \/ b = 0 THEN 0
    ELSE IF a = -1 THEN b
    ELSE IF b = -1 THEN a
    ELSE 2 * And(a \div 2, b \div 2) + (a % 2) * (b % 2)

RECURSIVE Or(_, _)
Or(a, b) ==
    IF a = 0 THEN b
    ELSE IF b = 0 THEN a
    ELSE IF a = -1 \/ b = -1 THEN -1
    ELSE 2 * Or(a \div 2, b \div 2) + Max(a % 2, b % 2)

RECURSIVE Xor(_, _)
Xor(a, b) ==
    IF a = 0 THEN b
    ELSE IF b = 0 THEN a
    ELSE IF a = -1 THEN Not(b)
    ELSE IF b = -1 THEN Not(a)
    ELSE 2 * Xor(a \div 2, b \div 2) + (((a % 2) + (b % 2)) % 2)

\* int.bit_length(): the number of bits of the absolute value.
RECURSIVE BitLengthAbs(_)
BitLengthAbs(a) == IF a = 0 THEN 0 ELSE 1 + BitLengthAbs(a \div 2)

\* The position of the highest set bit, without the + 1.
BitLengthFloorLog(v) ==
    LET a == IF v < 0 THEN -v ELSE v
    IN  IF a = 0 THEN 0 ELSE BitLengthAbs(a) - 1

BitLength(v) == BitLengthAbs(IF v < 0 THEN -v ELSE v)

(***************************************************************************)
(* The object's fields.                                                    *)
(***************************************************************************)
VARIABLES
    value,              \* self.__value: the stored integer
    width,              \* self.__width: None or an integer
    fixed_width_flag,   \* self.__fixed_width_flag
    pc,                 \* "idle": between calls; "done": a call has just returned
    call,               \* the last call: method, arguments, the object before it
    outcome,            \* what the last call did: returned, raised
    operand,            \* the other operand of the last call, when it took one
    chunker             \* the generator chunk_file returns (chunker.py), when one runs

vars == << value, width, fixed_width_flag, pc, call, outcome, operand, chunker >>

(***************************************************************************)
(* Bitfield.value (the property's getter) and Bitfield.__len__, as         *)
(* functions of the three fields.                                          *)
(***************************************************************************)
\* ValueOf with the mask 1 << width for (1 << width) - 1.
ValueOfMaskOffByOne(v, w, flag) ==
    IF flag THEN And(v, Shl(1, Val(w))) ELSE v

ValueOf(v, w, flag) ==
    IF flag THEN And(v, Shl(1, Val(w)) - 1) ELSE v

\* LenOf that takes the bit length whether or not the width is fixed.
LenOfIgnoresWidth(v, w, flag) == BitLength(ValueOf(v, w, flag))

LenOf(v, w, flag) ==
    IF flag THEN Val(w) ELSE BitLength(ValueOf(v, w, flag))

\* self.value and len(self) of the object as it is now
CurValue == ValueOf(value, width, fixed_width_flag)

CurLen == LenOf(value, width, fixed_width_flag)

(***************************************************************************)
(* Keys.  An integer key is [kind |-> "int", k |-> n]; a slice is          *)
(* [kind |-> "slice", start, stop, step], each of the three optional.      *)
(***************************************************************************)
IntKey(k) == [kind |-> "int", k |-> k, start |-> None, stop |-> None, step |-> None]

SliceKey(a, b, s) == [kind |-> "slice", k |-> 0, start |-> a, stop |-> b, step |-> s]

NoKey == [kind |-> "none", k |-> 0, start |-> None, stop |-> None, step |-> None]

(***************************************************************************)
(* tuple(range(length))[key]: the positions a slice selects, in visiting   *)
(* order (Python's slice.indices: omitted bounds, negative bounds counted  *)
(* from the end, out-of-range bounds clamped).  The step is not 0.         *)
(***************************************************************************)
SliceStep(key) == IF IsNone(key.step) THEN 1 ELSE Val(key.step)

AdjustBound(b, length, step) ==
    IF b < 0
    THEN IF b + length < 0
         THEN (IF step < 0 THEN -1 ELSE 0)
         ELSE b + length
    ELSE IF b >= length
         THEN (IF step < 0 THEN length - 1 ELSE length)
         ELSE b

SliceStart(key, length) ==
    LET step == SliceStep(key)
    IN  IF IsNone(key.start)
        THEN (IF step < 0 THEN length - 1 ELSE 0)
        ELSE AdjustBound(Val(key.start), length, step)

SliceStop(key, length) ==
    LET step == SliceStep(key)
    IN  IF IsNone(key.stop)
        THEN (IF step < 0 THEN -1 ELSE length)
        ELSE AdjustBound(Val(key.stop), length, step)

SliceLength(key, length) ==
    LET step  == SliceStep(key)
        start == SliceStart(key, length)
        stop  == SliceStop(key, length)
    IN  IF step < 0
        THEN (IF stop < start THEN (start - stop - 1) \div (-step) + 1 ELSE 0)
        ELSE (IF start < stop THEN (stop - start - 1) \div step + 1 ELSE 0)

SliceIndices(key, length) ==
    [i \in 1..SliceLength(key, length) |->
        SliceStart(key, length) + (i - 1) * SliceStep(key)]

\* The elements of a tuple, as a set.
Range(s) == {s[i] : i \in 1..Len(s)}

\* indices = list(range(length)); del indices[key]
RECURSIVE Ascending(_, _)
Ascending(S, n) ==
    IF n <= 0 THEN << >>
    ELSE LET rest == Ascending(S, n - 1)
         IN  IF (n - 1) \in S THEN Append(rest, n - 1) ELSE rest

DelIndices(key, length) ==
    Ascending((0..(length - 1)) \ Range(SliceIndices(key, length)), length)

(***************************************************************************)
(* What a method call does: the exception it raises ("ok" when none), the  *)
(* Bitfield's value it returns (None when it returns nothing) and the      *)
(* stored integer it leaves behind.                                        *)
(***************************************************************************)
Result(e, r, v) == [err |-> e, ret |-> r, value |-> v]

\* The bound check with key > length for key >= length.
IntKeyOutOfRangeOffByOne(k, length) == k > length \/ k < -length

\* if key >= length or key < -length: raise IndexError
IntKeyOutOfRange(k, length) == k >= length \/ k < -length

\* if key < 0: key *= -1; key = length - key
NormalizeIntKey(k, length) == IF k < 0 THEN length - (k * (-1)) ELSE k

\* if key.stop is not None and key.stop > length: raise IndexError
SliceStopOutOfRange(key, length) == ~IsNone(key.stop) /\ Val(key.stop) > length

\* tuple(range(length))[key] and del indices[key] raise ValueError on a step of 0
SliceStepIsZero(key) == ~IsNone(key.step) /\ Val(key.step) = 0

\* MoveBit without its b >>= old_index.
MoveBitNoShiftDown(v, old_index, new_index) ==
    Shl(And(v, Shl(1, old_index)), new_index)

\* b = self.value & (1 << old_index); b >>= old_index; b <<= new_index
MoveBit(v, old_index, new_index) ==
    Shl(Shr(And(v, Shl(1, old_index)), old_index), new_index)

\* val = 0; for new_index, old_index in zip(range(length), indices): val |= b
\* (the first n pairs of the zip; new_index counts from 0, tuples from 1)
RECURSIVE PackBits(_, _, _)
PackBits(v, indices, n) ==
    IF n <= 0 THEN 0
    ELSE Or(PackBits(v, indices, n - 1), MoveBit(v, indices[n], n - 1))

ZipLen(length, indices) == Min(length, Len(indices))

\* GetItemInt without the >> key of its return.
GetItemIntNoShift(v, w, flag, k) ==
    LET length == LenOf(v, w, flag)
        key    == NormalizeIntKey(k, length)
        mask   == Shl(1, key)
    IN  IF IntKeyOutOfRange(k, length)
        THEN Result("IndexError", None, v)
        ELSE Result("ok", Some(And(ValueOf(v, w, flag), mask)), v)

(* Bitfield.__getitem__ *)
GetItemInt(v, w, flag, k) ==
    LET length == LenOf(v, w, flag)
        key    == NormalizeIntKey(k, length)
        mask   == Shl(1, key)
    IN  IF IntKeyOutOfRange(k, length)
        THEN Result("IndexError", None, v)
        ELSE Result("ok", Some(Shr(And(ValueOf(v, w, flag), mask), key)), v)

GetItemSlice(v, w, flag, key) ==
    LET length      == LenOf(v, w, flag)
        old_indices == SliceIndices(key, length)
    IN  IF SliceStopOutOfRange(key, length)
        THEN Result("IndexError", None, v)
        ELSE IF SliceStepIsZero(key)
        THEN Result("ValueError", None, v)
        ELSE Result("ok",
                    Some(PackBits(ValueOf(v, w, flag), old_indices,
                                  ZipLen(length, old_indices))),
                    v)

GetItem(v, w, flag, key) ==
    IF key.kind = "int" THEN GetItemInt(v, w, flag, key.k)
    ELSE IF key.kind = "slice" THEN GetItemSlice(v, w, flag, key)
    ELSE Result("TypeError", None, v)

(* Bitfield.__reversed__: return self[::-1] *)
ReverseKey == SliceKey(None, None, Some(-1))

Reversed(v, w, flag) == GetItemSlice(v, w, flag, ReverseKey)

(* Bitfield.__setitem__ *)
\* self.value &= ~mask; value <<= key; self.value |= value
\* (each self.value reads through the getter and stores through the setter)
SetItemInt(v, w, flag, k, x) ==
    LET length  == LenOf(v, w, flag)
        key     == NormalizeIntKey(k, length)
        mask    == Shl(1, key)
        cleared == And(ValueOf(v, w, flag), Not(mask))
    IN  IF IntKeyOutOfRange(k, length)
        THEN Result("IndexError", None, v)
        ELSE Result("ok", None, Or(ValueOf(cleared, w, flag), Shl(x, key)))

\* mask |= (1 << new_index), over the first n pairs of the zip
RECURSIVE SliceMask(_, _)
SliceMask(indices, n) ==
    IF n <= 0 THEN 0
    ELSE Or(SliceMask(indices, n - 1), Shl(1, indices[n]))

\* b = value & (1 << val_index); b >>= val_index; b <<= new_index; expanded |= b
RECURSIVE Expand(_, _, _)
Expand(x, indices, n) ==
    IF n <= 0 THEN 0
    ELSE Or(Expand(x, indices, n - 1), MoveBit(x, n - 1, indices[n]))

\* SetItemSlice without its self.value &= ~mask.
SetItemSliceNoClear(v, w, flag, key, x) ==
    LET length   == LenOf(v, w, flag)
        indices  == SliceIndices(key, length)
        expanded == Expand(x, indices, ZipLen(length, indices))
    IN  IF SliceStopOutOfRange(key, length)
        THEN Result("IndexError", None, v)
        ELSE IF SliceStepIsZero(key)
        THEN Result("ValueError", None, v)
        ELSE Result("ok", None, Or(ValueOf(v, w, flag), expanded))

SetItemSlice(v, w, flag, key, x) ==
    LET length   == LenOf(v, w, flag)
        indices  == SliceIndices(key, length)
        n        == ZipLen(length, indices)
        mask     == SliceMask(indices, n)
        expanded == Expand(x, indices, n)
        cleared  == And(ValueOf(v, w, flag), Not(mask))
    IN  IF SliceStopOutOfRange(key, length)
        THEN Result("IndexError", None, v)
        ELSE IF SliceStepIsZero(key)
        THEN Result("ValueError", None, v)
        ELSE Result("ok", None, Or(ValueOf(cleared, w, flag), expanded))

SetItem(v, w, flag, key, x) ==
    IF key.kind = "int" THEN SetItemInt(v, w, flag, key.k, x)
    ELSE IF key.kind = "slice" THEN SetItemSlice(v, w, flag, key, x)
    ELSE Result("TypeError", None, v)

\* DelItemInt with left <<= key + 1: the deleted position is left as a hole.
DelItemIntNoCollapse(v, w, flag, k) ==
    LET length == LenOf(v, w, flag)
        key    == NormalizeIntKey(k, length)
        right  == GetItemSlice(v, w, flag, SliceKey(None, Some(key), None))
        left   == GetItemSlice(v, w, flag, SliceKey(Some(key + 1), None, None))
    IN  IF IntKeyOutOfRange(k, length)
        THEN Result("IndexError", None, v)
        ELSE Result("ok", None, Or(Shl(Val(left.ret), key + 1), Val(right.ret)))

\* DelItemInt without its left <<= key.
DelItemIntNoShift(v, w, flag, k) ==
    LET length == LenOf(v, w, flag)
        key    == NormalizeIntKey(k, length)
        right  == GetItemSlice(v, w, flag, SliceKey(None, Some(key), None))
        left   == GetItemSlice(v, w, flag, SliceKey(Some(key + 1), None, None))
    IN  IF IntKeyOutOfRange(k, length)
        THEN Result("IndexError", None, v)
        ELSE Result("ok", None, Or(Val(left.ret), Val(right.ret)))

(* Bitfield.__delitem__ *)
\* right, left = self[:key], self[key + 1:]; left <<= key
\* self.value = int(left) | int(right)
DelItemInt(v, w, flag, k) ==
    LET length == LenOf(v, w, flag)
        key    == NormalizeIntKey(k, length)
        right  == GetItemSlice(v, w, flag, SliceKey(None, Some(key), None))
        left   == GetItemSlice(v, w, flag, SliceKey(Some(key + 1), None, None))
    IN  IF IntKeyOutOfRange(k, length)
        THEN Result("IndexError", None, v)
        ELSE Result("ok", None, Or(Shl(Val(left.ret), key), Val(right.ret)))

\* DelItemSlice packing the selected positions instead of the remaining ones.
DelItemSliceKeepsSelected(v, w, flag, key) ==
    LET length  == LenOf(v, w, flag)
        indices == SliceIndices(key, length)
    IN  IF SliceStepIsZero(key)
        THEN Result("ValueError", None, v)
        ELSE Result("ok", None,
                    PackBits(ValueOf(v, w, flag), indices, ZipLen(length, indices)))

DelItemSlice(v, w, flag, key) ==
    LET length  == LenOf(v, w, flag)
        indices == DelIndices(key, length)
    IN  IF SliceStepIsZero(key)
        THEN Result("ValueError", None, v)
        ELSE Result("ok", None,
                    PackBits(ValueOf(v, w, flag), indices, ZipLen(length, indices)))

DelItem(v, w, flag, key) ==
    IF key.kind = "int" THEN DelItemInt(v, w, flag, key.k)
    ELSE IF key.kind = "slice" THEN DelItemSlice(v, w, flag, key)
    ELSE Result("TypeError", None, v)

(* Bitfield.__eq__ and Bitfield.__ne__; True is 1 and False is 0, as in Python *)
Bool(b) == IF b THEN 1 ELSE 0

\* other.value, read through the other Bitfield's getter
OperandValue(o) == ValueOf(o.value, o.width, o.flag)

\* Eq that takes two Bitfields of different widths for different.
EqComparesWidth(v, w, flag, o) ==
    IF o.kind = "int"
    THEN Result("ok", Some(Bool(ValueOf(v, w, flag) = o.value)), v)
    ELSE IF o.kind = "Bitfield"
    THEN Result("ok", Some(Bool(ValueOf(v, w, flag) = OperandValue(o) /\ w = o.width)), v)
    ELSE Result("ok", Some(Bool(FALSE)), v)

Eq(v, w, flag, o) ==
    IF o.kind = "int"
    THEN Result("ok", Some(Bool(ValueOf(v, w, flag) = o.value)), v)
    ELSE IF o.kind = "Bitfield"
    THEN Result("ok", Some(Bool(ValueOf(v, w, flag) = OperandValue(o))), v)
    ELSE Result("ok", Some(Bool(FALSE)), v)

Ne(v, w, flag, o) ==
    IF o.kind = "int"
    THEN Result("ok", Some(Bool(ValueOf(v, w, flag) # o.value)), v)
    ELSE IF o.kind = "Bitfield"
    THEN Result("ok", Some(Bool(ValueOf(v, w, flag) # OperandValue(o))), v)
    ELSE Result("ok", Some(Bool(TRUE)), v)

(* The in-place operators: self.value <op>= other; return self *)
RECURSIVE Pow(_, _)
Pow(a, n) == IF n <= 0 THEN 1 ELSE a * Pow(a, n - 1)

InPlace(op, a, other) ==
    CASE op = "iadd"      -> a + other
      [] op = "isub"      -> a - other
      [] op = "imul"      -> a * other
      [] op = "ifloordiv" -> a \div other
      [] op = "imod"      -> a % other
      [] op = "ipow"      -> Pow(a, other)
      [] op = "ilshift"   -> Shl(a, other)
      [] op = "irshift"   -> Shr(a, other)
      [] op = "iand"      -> And(a, other)
      [] op = "ixor"      -> Xor(a, other)
      [] op = "ior"       -> Or(a, other)

InPlaceOp(v, w, flag, op, other) ==
    IF op \in {"ifloordiv", "imod"} /\ other = 0
    THEN Result("ZeroDivisionError", None, v)
    ELSE Result("ok", None, InPlace(op, ValueOf(v, w, flag), other))

(***************************************************************************)
(* The binary operators with a plain int as the other operand: Bitfield on *)
(* the left (__add__ ...), and the reflected ones Python calls for         *)
(* n <op> bf (__radd__ ...).  Each returns a new Bitfield, of dynamic       *)
(* width, holding the result; Result's ret is that Bitfield's integer.     *)
(***************************************************************************)
\* a // b and a % b of Python's int: the quotient is rounded towards minus
\* infinity and the remainder has the sign of b (b is not 0).
FloorDiv(a, b) == IF b > 0 THEN a \div b ELSE (-a) \div (-b)

Mod(a, b) == a - b * FloorDiv(a, b)

\* a.__op__(b) of int, where it is an int.
IntOp(op, a, b) ==
    CASE op = "add"      -> a + b
      [] op = "sub"      -> a - b
      [] op = "mul"      -> a * b
      [] op = "floordiv" -> FloorDiv(a, b)
      [] op = "mod"      -> Mod(a, b)
      [] op = "pow"      -> Pow(a, b)
      [] op = "lshift"   -> Shl(a, b)
      [] op = "rshift"   -> Shr(a, b)
      [] op = "and"      -> And(a, b)
      [] op = "xor"      -> Xor(a, b)
      [] op = "or"       -> Or(a, b)

\* What int raises, or gives that is no int, for a <op> b.
IntOpError(op, a, b) ==
    IF op \in {"floordiv", "mod"} /\ b = 0 THEN "ZeroDivisionError"
    ELSE IF op \in {"lshift", "rshift"} /\ b < 0 THEN "ValueError"
    ELSE IF op = "pow" /\ b < 0 THEN (IF a = 0 THEN "ZeroDivisionError" ELSE "float")
    ELSE "ok"

\* self.__class__(self.value.__op__(other)), other an int
BinaryOp(v, w, flag, op, other) ==
    LET a == ValueOf(v, w, flag)
        e == IntOpError(op, a, other)
    IN  IF e # "ok" THEN Result(e, None, v)
        ELSE Result("ok", Some(IntOp(op, a, other)), v)

\* self.__class__(self.value.__rop__(other)), other an int: other <op> self.value
ReflectedIntOp(v, w, flag, op, other) ==
    LET a == ValueOf(v, w, flag)
        e == IntOpError(op, other, a)
    IN  IF e # "ok" THEN Result(e, None, v)
        ELSE Result("ok", Some(IntOp(op, other, a)), v)

\* __radd__, __rmul__, __rlshift__, __rrshift__, __rand__, __rxor__ and __ror__
\* return self.__op__(other); the other four call int's reflected method.
ReflectedOp(v, w, flag, op, other) ==
    CASE op = "radd"      -> BinaryOp(v, w, flag, "add", other)
      [] op = "rmul"      -> BinaryOp(v, w, flag, "mul", other)
      [] op = "rlshift"   -> BinaryOp(v, w, flag, "lshift", other)
      [] op = "rrshift"   -> BinaryOp(v, w, flag, "rshift", other)
      [] op = "rand"      -> BinaryOp(v, w, flag, "and", other)
      [] op = "rxor"      -> BinaryOp(v, w, flag, "xor", other)
      [] op = "ror"       -> BinaryOp(v, w, flag, "or", other)
      [] op = "rsub"      -> ReflectedIntOp(v, w, flag, "sub", other)
      [] op = "rfloordiv" -> ReflectedIntOp(v, w, flag, "floordiv", other)
      [] op = "rmod"      -> ReflectedIntOp(v, w, flag, "mod", other)
      [] op = "rpow"      -> ReflectedIntOp(v, w, flag, "pow", other)

(***************************************************************************)
(* The arguments the calls are made with.                                  *)
(***************************************************************************)
StoredRange == (-MaxNeg) .. (Pow2(MaxBits) - 1)

Widths == Opt(0..MaxBits)

KeyRange == (-(MaxBits + 1)) .. (MaxBits + 1)

IntKeys == {IntKey(k) : k \in KeyRange}

Steps == Opt((-MaxStep) .. MaxStep)

SliceKeys == {SliceKey(a, b, s) : a \in Opt(KeyRange), b \in Opt(KeyRange), s \in Steps}

Keys == IntKeys \cup SliceKeys

Inputs == 0 .. MaxInput

Operands == 0 .. MaxOperand

InPlaceOps ==
    {"iadd", "isub", "imul", "ifloordiv", "imod", "ipow",
     "ilshift", "irshift", "iand", "ixor", "ior"}

ReflectedOps ==
    {"radd", "rsub", "rmul", "rfloordiv", "rmod", "rpow",
     "rlshift", "rrshift", "rand", "rxor", "ror"}

NoCall == [op |-> "none", key |-> NoKey, x |-> 0,
           value |-> 0, width |-> None, flag |-> FALSE]

NoOutcome == [err |-> "ok", ret |-> None]

\* The other operand: a plain int, a Bitfield (its three fields) or some other object.
IntOperand(n) == [kind |-> "int", value |-> n, width |-> None, flag |-> FALSE]

BitfieldOperand(v, w) == [kind |-> "Bitfield", value |-> v, width |-> w, flag |-> ~IsNone(w)]

ObjectOperand == [kind |-> "object", value |-> 0, width |-> None, flag |-> FALSE]

NoOther == [kind |-> "none", value |-> 0, width |-> None, flag |-> FALSE]

\* No generator is running.
NoChunker == [pc |-> "none", source |-> << >>, size |-> 0, count |-> 0,
              chunk |-> None, chunk_width |-> None]

(***************************************************************************)
(* Bitfield(value, width): self.width = width; self.value = value          *)
(***************************************************************************)
Init ==
    /\ value \in StoredRange
    /\ width \in Widths
    /\ fixed_width_flag = ~IsNone(width)
    /\ pc = "idle"
    /\ call = NoCall
    /\ outcome = NoOutcome
    /\ operand = NoOther
    /\ chunker = NoChunker

\* A call of a method that leaves the width alone: res is what the method does.
Called(op, key, x, res) ==
    /\ res.value \in StoredRange
    /\ pc' = "done"
    /\ call' = [op |-> op, key |-> key, x |-> x,
                value |-> value, width |-> width, flag |-> fixed_width_flag]
    /\ outcome' = [err |-> res.err, ret |-> res.ret]
    /\ value' = res.value
    /\ UNCHANGED << width, fixed_width_flag, operand, chunker >>

\* bf.value = v
SetValue ==
    /\ pc = "idle"
    /\ \E v \in StoredRange :
        Called("set_value", NoKey, v, Result("ok", None, v))

\* SetWidth that also stores the value as read under the old width.
SetWidthTruncates ==
    /\ pc = "idle"
    /\ \E w \in Widths :
        /\ pc' = "done"
        /\ call' = [op |-> "set_width", key |-> NoKey, x |-> 0,
                    value |-> value, width |-> width, flag |-> fixed_width_flag]
        /\ outcome' = NoOutcome
        /\ fixed_width_flag' = ~IsNone(w)
        /\ width' = w
        /\ value' = ValueOf(value, width, fixed_width_flag)
        /\ UNCHANGED << operand, chunker >>

\* bf.width = w
SetWidth ==
    /\ pc = "idle"
    /\ \E w \in Widths :
        /\ pc' = "done"
        /\ call' = [op |-> "set_width", key |-> NoKey, x |-> 0,
                    value |-> value, width |-> width, flag |-> fixed_width_flag]
        /\ outcome' = NoOutcome
        /\ fixed_width_flag' = ~IsNone(w)
        /\ width' = w
        /\ UNCHANGED << value, operand, chunker >>

\* bf[key]
GetItemCall ==
    /\ pc = "idle"
    /\ \E key \in Keys :
        Called("getitem", key, 0, GetItem(value, width, fixed_width_flag, key))

\* bf[key] = x
SetItemCall ==
    /\ pc = "idle"
    /\ \E key \in Keys, x \in Inputs :
        Called("setitem", key, x, SetItem(value, width, fixed_width_flag, key, x))

\* del bf[key]
DelItemCall ==
    /\ pc = "idle"
    /\ \E key \in Keys :
        Called("delitem", key, 0, DelItem(value, width, fixed_width_flag, key))

\* bf <op>= other
InPlaceCall ==
    /\ pc = "idle"
    /\ \E op \in InPlaceOps, other \in Operands :
        Called(op, NoKey, other, InPlaceOp(value, width, fixed_width_flag, op, other))

\* other <op> bf, other a plain int
ReflectedCall ==
    /\ pc = "idle"
    /\ \E op \in ReflectedOps, other \in Operands :
        Called(op, NoKey, other, ReflectedOp(value, width, fixed_width_flag, op, other))

\* A call that takes another operand o and leaves the object alone.
CalledWith(op, o, res) ==
    /\ pc' = "done"
    /\ call' = [op |-> op, key |-> NoKey, x |-> 0,
                value |-> value, width |-> width, flag |-> fixed_width_flag]
    /\ outcome' = [err |-> res.err, ret |-> res.ret]
    /\ operand' = o
    /\ UNCHANGED << value, width, fixed_width_flag, chunker >>

\* The operands a comparison is made with.
Others ==
    {IntOperand(n) : n \in StoredRange}
        \cup {BitfieldOperand(v, w) : v \in StoredRange, w \in Widths}
        \cup {ObjectOperand}

\* bf == o
EqCall ==
    /\ pc = "idle"
    /\ \E o \in Others :
        CalledWith("eq", o, Eq(value, width, fixed_width_flag, o))

\* bf != o
NeCall ==
    /\ pc = "idle"
    /\ \E o \in Others :
        CalledWith("ne", o, Ne(value, width, fixed_width_flag, o))

\* reversed(bf)
ReversedCall ==
    /\ pc = "idle"
    /\ Called("reversed", NoKey, 0, Reversed(value, width, fixed_width_flag))

\* The caller has the outcome and goes on to its next call.
Return ==
    /\ pc = "done"
    /\ pc' = "idle"
    /\ call' = NoCall
    /\ outcome' = NoOutcome
    /\ operand' = NoOther
    /\ UNCHANGED << value, width, fixed_width_flag, chunker >>

Next ==
    \/ SetValue
    \/ SetWidth
    \/ GetItemCall
    \/ SetItemCall
    \/ DelItemCall
    \/ InPlaceCall
    \/ ReflectedCall
    \/ ReversedCall
    \/ EqCall
    \/ NeCall
    \/ Return

Spec == Init /\ [][Next]_vars

\* The same calls on the object of the docstrings' examples: Bitfield(0b1010).
ScenarioValue == 10

InitScenario ==
    /\ value = ScenarioValue
    /\ width = None
    /\ fixed_width_flag = FALSE
    /\ pc = "idle"
    /\ call = NoCall
    /\ outcome = NoOutcome
    /\ operand = NoOther
    /\ chunker = NoChunker

SpecScenario == InitScenario /\ [][Next]_vars

(***************************************************************************)
(* chunker.py: chunk_file(file_obj, bitfield_size), a generator.  Its      *)
(* working Bitfield `data` is held in value, width and fixed_width_flag;   *)
(* the record chunker holds the generator's position (pc), its arguments   *)
(* (the bytes file_obj.read() returns, bitfield_size), the chunk handed    *)
(* out last and how many were handed out.                                  *)
(***************************************************************************)
\* The largest byte, and the base the bytes are digits of.
ByteMax == 255

ByteBase == ByteMax + 1

\* The sources are the empty one, every single byte, and every byte followed
\* by a second byte of at most MaxHighByte.
MaxHighByte == 2

\* The chunk widths are 0 .. MaxChunkSize.
MaxChunkSize == 9

\* The count of chunks handed out stays at MaxCount once it is there (only a
\* sequence that never ends gets there).
MaxCount == 12

RECURSIVE SumTo(_, _)
SumTo(f, k) == IF k = 0 THEN 0 ELSE f[k] + SumTo(f, k - 1)

\* int.from_bytes(data, 'big')
FromBytesBig(data) ==
    SumTo([j \in 1..Len(data) |-> data[j] * Pow(ByteBase, Len(data) - j)], Len(data))

\* int.from_bytes(data, 'little')
FromBytesLittle(data) ==
    SumTo([j \in 1..Len(data) |-> data[j] * Pow(ByteBase, j - 1)], Len(data))

Sources ==
    {<< >>} \cup {<< b >> : b \in 0..ByteMax}
            \cup {<< b, h >> : b \in 0..ByteMax, h \in 0..MaxHighByte}

ChunkSizes == 0 .. MaxChunkSize

\* The loop from its test to the yield, the IndexError or the end, on the
\* working Bitfield storing d: what the generator record becomes.
ChunkLoop(d) ==
    IF LenOf(d, None, FALSE) = 0
    THEN [chunker EXCEPT !.pc = "ended"]
    ELSE LET chunk == GetItemSlice(d, None, FALSE, SliceKey(None, Some(chunker.size), None))
         IN  IF chunk.err # "ok"
             THEN [chunker EXCEPT !.pc = chunk.err]
             ELSE [chunker EXCEPT !.pc = "yielded",
                                  !.chunk = chunk.ret,
                                  !.chunk_width = Some(chunker.size),
                                  !.count = Min(chunker.count + 1, MaxCount)]

\* No generator yet: the Bitfield that will be `data` does not exist.
ChunkInit ==
    /\ value = 0
    /\ width = None
    /\ fixed_width_flag = FALSE
    /\ pc = "idle"
    /\ call = NoCall
    /\ outcome = NoOutcome
    /\ operand = NoOther
    /\ chunker = NoChunker

\* chunk_file(file_obj, bitfield_size) on one of the sources S: nothing runs
\* until the first demand.
ChunkCallOf(S) ==
    /\ chunker.pc = "none"
    /\ \E source \in S, size \in ChunkSizes :
        chunker' = [pc |-> "created", source |-> source, size |-> size, count |-> 0,
                    chunk |-> None, chunk_width |-> None]
    /\ UNCHANGED << value, width, fixed_width_flag, pc, call, outcome, operand >>

ChunkCall == ChunkCallOf(Sources)

\* The first next(): read, decode, then the loop.
ChunkFirst ==
    /\ chunker.pc = "created"
    /\ LET d == FromBytesLittle(chunker.source)
       IN  /\ value' = d
           /\ chunker' = ChunkLoop(d)
    /\ UNCHANGED << width, fixed_width_flag, pc, call, outcome, operand >>

\* The consumer has the chunk; the generator waits at its yield.
ChunkTaken ==
    /\ chunker.pc = "yielded"
    /\ chunker' = [chunker EXCEPT !.pc = "suspended"]
    /\ UNCHANGED << value, width, fixed_width_flag, pc, call, outcome, operand >>

\* A later next(): data >>= bitfield_size, then the loop.
ChunkResume ==
    /\ chunker.pc = "suspended"
    /\ LET d == InPlaceOp(value, width, fixed_width_flag, "irshift", chunker.size).value
       IN  /\ value' = d
           /\ chunker' = ChunkLoop(d)
    /\ UNCHANGED << width, fixed_width_flag, pc, call, outcome, operand >>

ChunkNext ==
    \/ ChunkCall
    \/ ChunkFirst
    \/ ChunkTaken
    \/ ChunkResume

SpecChunk == ChunkInit /\ [][ChunkNext]_vars

\* The same generator on the sources of at most one byte, that byte at most
\* MaxFairByte, with a consumer that keeps demanding the next chunk for as
\* long as there is one.
MaxFairByte == 7

ShortSources == {<< >>} \cup {<< b >> : b \in 0..MaxFairByte}

ChunkCallShort == ChunkCallOf(ShortSources)

ChunkNextShort ==
    \/ ChunkCallShort
    \/ ChunkFirst
    \/ ChunkTaken
    \/ ChunkResume

SpecChunkFair == ChunkInit /\ [][ChunkNextShort]_vars /\ WF_vars(ChunkNextShort)

(***************************************************************************)
(* Vocabulary of the properties.                                           *)
(***************************************************************************)
\* Bit i of the integer v (of its two's complement when v is negative).
Bit(v, i) == (v \div Pow2(i)) % 2

\* The value read from, and the length of, the object before the last call.
PreValue == ValueOf(call.value, call.width, call.flag)

PreLen == LenOf(call.value, call.width, call.flag)

\* Every bit position a stored integer of the model can differ at.
Positions == 0 .. (MaxBits + 1)

\* The last call was op with a key of the given kind and raised nothing.
Accepted(op, kind) ==
    /\ pc = "done"
    /\ call.op = op
    /\ call.key.kind = kind
    /\ outcome.err = "ok"

\* The positions the last call's slice selects, in visiting order.
Selected == SliceIndices(call.key, PreLen)

\* The position the last call's integer key addresses.
Addressed == IF call.key.k < 0 THEN PreLen + call.key.k ELSE call.key.k

(***************************************************************************)
(* C1.  Range read: an accepted bf[start:stop:step] returns a new Bitfield *)
(* whose bit i is bit p_i of bf's value, for the k positions p_0..p_(k-1)  *)
(* the slice selects in visiting order, and whose bits from k up are 0; bf *)
(* itself is left as it was.                                               *)
(***************************************************************************)
C1_RangeRead ==
    Accepted("getitem", "slice") =>
        LET r == Val(outcome.ret)
            k == Len(Selected)
        IN  /\ \A i \in 0..(k - 1) : Bit(r, i) = Bit(PreValue, Selected[i + 1])
            /\ 0 <= r /\ r < Pow2(k)
            /\ value = call.value

\* A read with a negative step other than -1 that selects two bits or more, not all 0.
C1_Witness ==
    /\ Accepted("getitem", "slice")
    /\ SliceStep(call.key) < -1
    /\ Len(Selected) >= 2
    /\ Val(outcome.ret) = 2
    /\ PreValue # 2

(***************************************************************************)
(* C2.  Integer keys: bf[k], bf[k] = x and del bf[k] are accepted exactly  *)
(* when -len(bf) <= k < len(bf), and raise IndexError (changing nothing)   *)
(* otherwise; an accepted negative k addresses position len(bf) + k.       *)
(***************************************************************************)
C2_IntKeyBounds ==
    (pc = "done" /\ call.op \in {"getitem", "setitem", "delitem"}
                 /\ call.key.kind = "int") =>
        LET k == call.key.k
            L == PreLen
            p == Addressed
        IN  /\ outcome.err = "ok" <=> (-L <= k /\ k < L)
            /\ outcome.err # "ok" => (outcome.err = "IndexError" /\ value = call.value)
            /\ (outcome.err = "ok" /\ call.op = "getitem") =>
                   Val(outcome.ret) = Bit(PreValue, p)
            /\ (outcome.err = "ok" /\ call.op = "setitem") =>
                   Bit(CurValue, p) = call.x % 2
            /\ (outcome.err = "ok" /\ call.op = "delitem") =>
                   /\ \A j \in 0..(p - 1) : Bit(CurValue, j) = Bit(PreValue, j)
                   /\ \A j \in p..(L - 2) : Bit(CurValue, j) = Bit(PreValue, j + 1)

\* A negative key was accepted by each of the three, and keys beyond both ends refused.
C2_Witness ==
    /\ pc = "done"
    /\ call.op = "delitem"
    /\ call.key.kind = "int"
    /\ call.key.k = -2
    /\ outcome.err = "ok"
    /\ PreLen = 3
    /\ PreValue = 5
    /\ CurValue = 3

(***************************************************************************)
(* C3.  Range write: after an accepted bf[start:stop:step] = x, x >= 0,    *)
(* bit p_i of bf is bit i of x for each of the k selected positions (the   *)
(* bits of x from k up are dropped, a selected position x has no bit for   *)
(* becomes 0) and every position the slice does not select is unchanged.   *)
(***************************************************************************)
C3_RangeWrite ==
    Accepted("setitem", "slice") =>
        LET k == Len(Selected)
        IN  /\ \A i \in 0..(k - 1) : Bit(CurValue, Selected[i + 1]) = Bit(call.x, i)
            /\ \A q \in Positions \ Range(Selected) : Bit(CurValue, q) = Bit(PreValue, q)

\* A write of more bits than the slice selects, into every other position of 3 bits.
C3_Witness ==
    /\ Accepted("setitem", "slice")
    /\ Selected = << 0, 2 >>
    /\ call.x = 6
    /\ PreValue = 5
    /\ CurValue = 4

(***************************************************************************)
(* C4.  Delete removes positions: after an accepted del bf[key], with      *)
(* s_0 < ... < s_(m-1) the positions of 0..len(bf)-1 the key does not      *)
(* select (an integer key selects the one position it addresses), bit j of *)
(* bf is the old bit s_j for j < m and the bits from m up are 0.           *)
(***************************************************************************)
Deleted ==
    IF call.key.kind = "int" THEN {Addressed} ELSE Range(Selected)

Survivors == (0 .. (PreLen - 1)) \ Deleted

\* The number of surviving positions below s: where the bit at s goes.
Rank(s) == Cardinality({q \in Survivors : q < s})

C4_DeleteRepacks ==
    (pc = "done" /\ call.op = "delitem" /\ outcome.err = "ok") =>
        /\ \A s \in Survivors : Bit(CurValue, Rank(s)) = Bit(PreValue, s)
        /\ 0 <= CurValue /\ CurValue < Pow2(Cardinality(Survivors))

\* A delete of every other position, and a delete by integer key from the middle.
C4_Witness ==
    /\ Accepted("delitem", "slice")
    /\ Deleted = {0, 2}
    /\ PreValue = 2
    /\ CurValue = 1

(***************************************************************************)
(* C5.  Set/get round trip, as stated: on a Bitfield of dynamic width,     *)
(* after an accepted bf[i] = b with b 0 or 1, the read bf[i] returns b.    *)
(* This fails: a write can change len(bf), and with it what i addresses.   *)
(* It is stated here for the non-negative values, where it fails already.  *)
(***************************************************************************)
ReadBack == GetItemInt(value, width, fixed_width_flag, call.key.k)

C5_RoundTripAlways ==
    (Accepted("setitem", "int") /\ call.x \in {0, 1}
                                /\ ~call.flag /\ call.value >= 0) =>
        ReadBack = Result("ok", Some(call.x), value)

(***************************************************************************)
(* C5, amended.  After an accepted bf[i] = b with b 0 or 1, the read bf[i] *)
(* returns b whenever the write left len(bf) unchanged (always so under a  *)
(* fixed width).  For a non-negative value of dynamic width the length is  *)
(* unchanged by every write of 1 and by every write of 0 below the most    *)
(* significant position; a write of 0 to the most significant position     *)
(* shrinks the length, and the read bf[i] then raises IndexError or        *)
(* returns 1.                                                              *)
(***************************************************************************)
C5_RoundTripSameLength ==
    (Accepted("setitem", "int") /\ call.x \in {0, 1}) =>
        LET top  == Addressed = PreLen - 1
            nneg == ~call.flag /\ call.value >= 0
        IN  /\ CurLen = PreLen => ReadBack = Result("ok", Some(call.x), value)
            /\ call.flag => CurLen = PreLen
            /\ (nneg /\ (call.x = 1 \/ ~top)) => CurLen = PreLen
            /\ (nneg /\ call.x = 0 /\ top) =>
                   /\ CurLen < PreLen
                   /\ ReadBack.err = "IndexError" \/ ReadBack.ret = Some(1)

\* A 0 written to the top bit of 0b101 by the key -1: bf[-1] then reads 1, not 0.
C5_Witness ==
    /\ Accepted("setitem", "int")
    /\ ~call.flag
    /\ call.value = 5
    /\ call.key.k = -1
    /\ call.x = 0
    /\ value = 1
    /\ ReadBack = Result("ok", Some(1), 1)

(***************************************************************************)
(* C6.  Deletion and length, as stated: after an accepted del bf[key]      *)
(* that selects c positions, len(bf) is c less than before.  This fails:   *)
(* a fixed width is not shrunk, and a dynamic length drops past every 0    *)
(* bit left on top.  It is stated here for the non-negative values of      *)
(* dynamic width, where it fails already.                                  *)
(***************************************************************************)
C6_LenShrinksByCount ==
    (pc = "done" /\ call.op = "delitem" /\ outcome.err = "ok"
                 /\ ~call.flag /\ call.value >= 0) =>
        CurLen = PreLen - Cardinality(Deleted)

(***************************************************************************)
(* C6, amended.  After an accepted del bf[key] that selects c positions:   *)
(* under a fixed width len(bf) is unchanged; under a dynamic width len(bf) *)
(* is at most c less than before, and exactly c less iff no position      *)
(* survives or the bit at the highest surviving position is 1.             *)
(***************************************************************************)
TopSurvivor == CHOOSE s \in Survivors : \A q \in Survivors : q <= s

C6_LenAfterDelete ==
    (pc = "done" /\ call.op = "delitem" /\ outcome.err = "ok") =>
        LET c == Cardinality(Deleted)
        IN  IF call.flag
            THEN CurLen = PreLen
            ELSE /\ CurLen <= PreLen - c
                 /\ CurLen = PreLen - c
                        <=> (Survivors = {} \/ Bit(PreValue, TopSurvivor) = 1)

\* del bf[-1] on 0b101 of dynamic width: one position deleted, the length drops by 2.
C6_Witness ==
    /\ Accepted("delitem", "int")
    /\ ~call.flag
    /\ call.value = 5
    /\ call.key.k = -1
    /\ CurLen = 1
    /\ PreLen = 3

(***************************************************************************)
(* C7.  Fixed width: whenever the width is set to N, whatever calls were   *)
(* made, len(bf) is N and the value read is the stored integer modulo 2^N, *)
(* so it lies in 0 .. 2^N - 1; and a length of 0 means a value of 0.       *)
(***************************************************************************)
C7_FixedWidth ==
    /\ fixed_width_flag =>
          /\ ~IsNone(width)
          /\ CurLen = Val(width)
          /\ CurValue = value % Pow2(Val(width))
          /\ 0 <= CurValue /\ CurValue < Pow2(Val(width))
    /\ CurLen = 0 => CurValue = 0

\* After bf -= other the stored integer is negative, the value read is not.
C7_Witness ==
    /\ pc = "done"
    /\ call.op = "isub"
    /\ fixed_width_flag
    /\ Val(width) = 2
    /\ value = -1
    /\ CurValue = 3

(***************************************************************************)
(* C8.  Dynamic length: whenever the width is unset and the value v is not *)
(* negative, len(bf) is 0 if v = 0 and otherwise one more than the         *)
(* position of the highest set bit of v: 2^(len-1) <= v < 2^len.           *)
(***************************************************************************)
C8_DynamicLength ==
    (~fixed_width_flag /\ CurValue >= 0) =>
        /\ CurValue = 0 => CurLen = 0
        /\ CurValue > 0 => (Pow2(CurLen - 1) <= CurValue /\ CurValue < Pow2(CurLen))

\* A delete has just shortened a dynamic Bitfield from 3 bits to 2.
C8_Witness ==
    /\ Accepted("delitem", "int")
    /\ ~fixed_width_flag
    /\ PreLen = 3
    /\ CurValue = 3
    /\ CurLen = 2

(***************************************************************************)
(* C9.  Range stop bound: a range read, write or delete whose stop is      *)
(* greater than len(bf) raises IndexError, and one whose stop is len(bf)   *)
(* is accepted.  Stated for the non-negative values of dynamic width; the  *)
(* range delete breaks it there already.                                   *)
(***************************************************************************)
C9_StopBound ==
    (pc = "done" /\ call.op \in {"getitem", "setitem", "delitem"}
                 /\ call.key.kind = "slice" /\ ~IsNone(call.key.stop)
                 /\ ~call.flag /\ call.value >= 0) =>
        /\ Val(call.key.stop) > PreLen => outcome.err = "IndexError"
        /\ (Val(call.key.stop) = PreLen /\ ~SliceStepIsZero(call.key)) =>
               outcome.err = "ok"

(***************************************************************************)
(* C10.  A width assignment leaves the stored integer alone: after         *)
(* bf.width = w on a Bitfield storing v, v is still stored, the value read *)
(* is v modulo 2^N and len(bf) is N when w is N, and the value read is v   *)
(* and len(bf) is bit_length(v) when w is None; a wider width shows the    *)
(* bits of v the narrower one masked.                                      *)
(***************************************************************************)
C10_WidthKeepsStored ==
    (pc = "done" /\ call.op = "set_width") =>
        /\ value = call.value
        /\ IF IsNone(width)
           THEN /\ CurValue = call.value
                /\ CurLen = BitLengthAbs(IF call.value < 0 THEN -call.value ELSE call.value)
           ELSE /\ CurValue = call.value % Pow2(Val(width))
                /\ CurLen = Val(width)
        /\ \A i \in Positions :
              (IsNone(width) \/ i < Val(width)) => Bit(CurValue, i) = Bit(call.value, i)

\* Width 1 widened to 3 over a stored 0b111: the value read goes from 1 to 7.
C10_Witness ==
    /\ pc = "done"
    /\ call.op = "set_width"
    /\ call.width = Some(1)
    /\ width = Some(3)
    /\ PreValue = 1
    /\ CurValue = 7

(***************************************************************************)
(* C11.  Reverse involution over a fixed width: for bf of fixed width N,   *)
(* r = reversed(bf) (the same as bf[::-1]) holds the N bits of bf's value  *)
(* in reverse order, and reversing r again, with r's width held at N,      *)
(* gives back the value read from bf.                                      *)
(***************************************************************************)
ReversedLast ==
    /\ pc = "done"
    /\ call.flag
    /\ \/ call.op = "reversed"
       \/ call.op = "getitem" /\ call.key = ReverseKey

C11_ReverseInvolution ==
    ReversedLast =>
        LET N    == Val(call.width)
            r    == Val(outcome.ret)
            back == Reversed(r, Some(N), TRUE)
        IN  /\ outcome.err = "ok"
            /\ \A i \in 0..(N - 1) : Bit(r, i) = Bit(PreValue, N - 1 - i)
            /\ 0 <= r /\ r < Pow2(N)
            /\ back.err = "ok"
            /\ Val(back.ret) = PreValue

\* reversed(Bitfield(0b011, width=3)) is 0b110, which no dynamic width would give back.
C11_Witness ==
    /\ ReversedLast
    /\ call.op = "reversed"
    /\ call.width = Some(3)
    /\ PreValue = 3
    /\ outcome.ret = Some(6)

(***************************************************************************)
(* C12.  Equality ignores width: bf == o is True exactly when o is a plain *)
(* int or a Bitfield and the integer read from bf is the integer o is (a   *)
(* Bitfield's as read: modulo 2^N under a fixed width N), whatever the     *)
(* widths; bf != o is the opposite of bf == o; with any other object       *)
(* bf == o is False and bf != o is True, and neither raises.               *)
(***************************************************************************)
\* The integer read from a Bitfield storing v under width w.
ReadAs(v, w) == IF IsNone(w) THEN v ELSE v % Pow2(Val(w))

SameInteger ==
    /\ operand.kind \in {"int", "Bitfield"}
    /\ ReadAs(call.value, call.width)
           = (IF operand.kind = "int" THEN operand.value ELSE ReadAs(operand.value, operand.width))

C12_EqualityIgnoresWidth ==
    (pc = "done" /\ call.op \in {"eq", "ne"}) =>
        /\ outcome.err = "ok"
        /\ call.op = "eq" => outcome.ret = Some(Bool(SameInteger))
        /\ call.op = "ne" => outcome.ret = Some(Bool(~SameInteger))
        /\ Val(Eq(call.value, call.width, call.flag, operand).ret)
               + Val(Ne(call.value, call.width, call.flag, operand).ret) = 1
        /\ value = call.value

\* Bitfield(0b011, width=3) == Bitfield(0b111, width=2): different widths and
\* stored integers, the same integer read.
C12_Witness ==
    /\ pc = "done"
    /\ call.op = "eq"
    /\ call.value = 3 /\ call.width = Some(3)
    /\ operand.kind = "Bitfield"
    /\ operand.value = 7 /\ operand.width = Some(2)
    /\ outcome.ret = Some(1)

(***************************************************************************)
(* C13.  Chunk contents: for a source decoding (little-endian, unsigned)   *)
(* to n and a chunk width w >= 1, the i-th chunk chunk_file yields         *)
(* (i = 0, 1, ...) is a Bitfield of width w and length w whose value is    *)
(* floor(n / 2^(i*w)) mod 2^w: the low-order bits come first.              *)
(***************************************************************************)
\* n is the integer whose base-256 digits, lowest first, are the bytes.
DecodesLittleEndian(n, bytes) ==
    /\ 0 <= n /\ n < Pow(ByteBase, Len(bytes))
    /\ \A j \in 1..Len(bytes) : (n \div Pow(ByteBase, j - 1)) % ByteBase = bytes[j]

C13_ChunkContents ==
    (chunker.pc = "yielded" /\ chunker.size >= 1) =>
        LET n == FromBytesLittle(chunker.source)
            w == chunker.size
            i == chunker.count - 1
            c == Val(chunker.chunk)
        IN  /\ DecodesLittleEndian(n, chunker.source)
            /\ chunker.count < MaxCount
            /\ chunker.chunk_width = Some(w)
            /\ LenOf(c, chunker.chunk_width, TRUE) = w
            /\ ValueOf(c, chunker.chunk_width, TRUE) = (n \div Pow2(i * w)) % Pow2(w)

\* The byte 0xAB with w = 4: the second chunk is 0b1010.
C13_Witness ==
    /\ chunker.pc = "yielded"
    /\ chunker.source = << 171 >>
    /\ chunker.size = 4
    /\ chunker.count = 2
    /\ chunker.chunk = Some(10)

(***************************************************************************)
(* C14.  Partial final chunk: for a source decoding to n > 0 and a chunk   *)
(* width w >= 1, consuming the whole sequence raises no error and yields   *)
(* exactly ceil(bit_length(n) / w) chunks, the last one holding the        *)
(* remaining high-order bits of n under the fixed width w.                 *)
(***************************************************************************)
CeilDiv(a, b) == (a + b - 1) \div b

C14_PartialFinalChunk ==
    LET n == FromBytesLittle(chunker.source)
        w == chunker.size
    IN  (n > 0 /\ w >= 1) =>
            /\ chunker.pc # "IndexError"
            /\ chunker.pc = "ended" => chunker.count = CeilDiv(BitLength(n), w)

(***************************************************************************)
(* C15.  The chunk sequence is finite: for every source and every chunk    *)
(* width >= 0, a consumer that keeps demanding the next chunk eventually   *)
(* sees the sequence end; an empty or all-zero source yields no chunk.     *)
(* (The end counted here is either one: the loop's, with the working       *)
(* integer at 0, or the IndexError of C14.)                                *)
(***************************************************************************)
ChunkerFinished == chunker.pc \in {"ended", "IndexError"}

C15_SequenceEnds ==
    /\ [](FromBytesLittle(chunker.source) = 0 => chunker.count = 0)
    /\ <>ChunkerFinished

(***************************************************************************)
(* C16.  Concrete delete scenario: from b = Bitfield(0b1010) of dynamic    *)
(* width, del b[2] leaves b == 0b110: bit 2 is removed and bit 3 moves     *)
(* down to position 2.                                                     *)
(***************************************************************************)
ScenarioDelete ==
    /\ pc = "done"
    /\ call.op = "delitem"
    /\ call.key = IntKey(2)
    /\ call.value = ScenarioValue
    /\ ~call.flag

C16_DeleteScenario ==
    ScenarioDelete => (outcome.err = "ok" /\ CurValue = 6 /\ CurLen = 3)

\* The scenario with the result 0b1110.
C16_DeleteScenarioSetsBit ==
    ScenarioDelete => (outcome.err = "ok" /\ CurValue = 14)

C16_Witness ==
    /\ ScenarioDelete
    /\ value = 6

(***************************************************************************)
(* C17.  Operators with a plain integer on the left: for every operator    *)
(* of +, -, *, //, %, **, <<, >>, &, ^, | and every plain integer n and    *)
(* Bitfield b for which the native operation is defined, n op b returns a  *)
(* new Bitfield whose value is the native integer result of n op b.value,  *)
(* the operands in that order.                                             *)
(***************************************************************************)
\* n op b on integers.
Native(op, n, b) ==
    CASE op = "radd"      -> n + b
      [] op = "rsub"      -> n - b
      [] op = "rmul"      -> n * b
      [] op = "rfloordiv" -> FloorDiv(n, b)
      [] op = "rmod"      -> n - b * FloorDiv(n, b)
      [] op = "rpow"      -> Pow(n, b)
      [] op = "rlshift"   -> n * Pow2(b)
      [] op = "rrshift"   -> n \div Pow2(b)
      [] op = "rand"      -> And(n, b)
      [] op = "rxor"      -> Xor(n, b)
      [] op = "ror"       -> Or(n, b)

\* n op b is defined and an integer.
NativeDefined(op, n, b) ==
    /\ op \in {"rfloordiv", "rmod"} => b # 0
    /\ op \in {"rpow", "rlshift", "rrshift"} => b >= 0

\* (Stated for the non-negative stored integers.)
C17_ReflectedOperators ==
    (/\ pc = "done"
     /\ call.op \in ReflectedOps
     /\ call.value >= 0
     /\ NativeDefined(call.op, call.x, PreValue)) =>
        /\ outcome.err = "ok"
        /\ outcome.ret = Some(Native(call.op, call.x, PreValue))
        /\ value = call.value

(***************************************************************************)
(* C18.  Integer-key write touches one bit only: after an accepted         *)
(* bf[k] = x with x >= 0, the bit at the addressed position is x mod 2 and *)
(* every other bit of bf's value is as it was before the write.            *)
(* (Stated for the non-negative stored integers.)                          *)
(***************************************************************************)
C18_IntKeyWriteOneBit ==
    (Accepted("setitem", "int") /\ call.value >= 0) =>
        \A p \in Positions :
            Bit(CurValue, p) = (IF p = Addressed THEN call.x % 2 ELSE Bit(PreValue, p))

(***************************************************************************)
(* C19.  No silent clamping of invalid indices: a read, write or delete on *)
(* a Bitfield of length L whose key names a position outside the field (an *)
(* integer key outside -L .. L-1, or a range key whose start or stop is    *)
(* greater than L or less than -L) fails with an error.                    *)
(* (Stated for the non-negative stored integers.)                          *)
(***************************************************************************)
BoundOutside(b, L) == ~IsNone(b) /\ (Val(b) > L \/ Val(b) < -L)

KeyOutside(key, L) ==
    IF key.kind = "int"
    THEN key.k < -L \/ key.k > L - 1
    ELSE BoundOutside(key.start, L) \/ BoundOutside(key.stop, L)

C19_NoSilentClamping ==
    (/\ pc = "done"
     /\ call.op \in {"getitem", "setitem", "delitem"}
     /\ call.value >= 0
     /\ KeyOutside(call.key, PreLen)) =>
        outcome.err # "ok"

(***************************************************************************)
(* C20.  Masking under a fixed width leaves the hidden bits alone: for a   *)
(* Bitfield of fixed width N whose stored integer has bits set at          *)
(* positions >= N, an accepted indexed write, or an in-place &=, ^= or |=  *)
(* with an operand below 2^N, leaves the stored bits at positions >= N as  *)
(* they were, so that unsetting the width afterwards shows them again.     *)
(* (Stated for the non-negative stored integers.)                          *)
(***************************************************************************)
\* The last call updated positions below the fixed width only.
UpdateBelowWidth ==
    /\ pc = "done"
    /\ outcome.err = "ok"
    /\ call.flag
    /\ \/ call.op = "setitem" /\ call.key.kind = "int" /\ call.x \in {0, 1}
       \/ call.op = "setitem" /\ call.key.kind = "slice"
       \/ call.op \in {"iand", "ixor", "ior"} /\ call.x < Pow2(Val(call.width))

C20_HiddenBitsPreserved ==
    (UpdateBelowWidth /\ call.value >= Pow2(Val(call.width))) =>
        \A p \in Positions :
            p >= Val(call.width) => Bit(value, p) = Bit(call.value, p)

====
